---- MODULE Spec2Model ----
(***************************************************************************)
(* Model of package machineid: the lazily initialised, mutex-guarded cache *)
(* of the machine identity (loadInfo), its public readers ID and           *)
(* ProtectedID, the hasher protect and the network-hardware fallback       *)
(* getHardwareId.                                                          *)
(*                                                                         *)
(* Go strings are modelled as sequences of one-character strings, so that  *)
(* trimming, lower-casing, substring search, comparison and joining are    *)
(* computed rather than assumed.                                           *)
(***************************************************************************)
EXTENDS Integers, Sequences, FiniteSets, TLC

\* ------------------------------------------------------------------ bounds
NumProcs == 2
MaxCalls == 2
MaxIfaces == 3
MaxStrLen == 3

Procs == 1..NumProcs

\* ----------------------------------------------------------------- strings
\* The characters that occur in the model, in ascending byte order.
Alphabet ==
  << "\t", "\n", " ", "\"", "#", ",",
     "0", "1", "2", "3", "4", "5", "6", "7", "8", "9", ":", "=",
     "A", "B", "C", "D", "E", "F", "G", "H", "I", "J", "K", "L", "M",
     "N", "O", "P", "Q", "R", "S", "T", "U", "V", "W", "X", "Y", "Z",
     "a", "b", "c", "d", "e", "f", "g", "h", "i", "j", "k", "l", "m",
     "n", "o", "p", "q", "r", "s", "t", "u", "v", "w", "x", "y", "z" >>

Ord(c) == CHOOSE i \in 1..Len(Alphabet) : Alphabet[i] = c

Empty == << >>

\* unicode.IsSpace restricted to the alphabet
IsSpace(c) == c \in {"\t", "\n", " "}

RECURSIVE TrimLeft(_)
TrimLeft(s) ==
  IF s # Empty /\ IsSpace(Head(s)) THEN TrimLeft(Tail(s)) ELSE s

RECURSIVE TrimRight(_)
TrimRight(s) ==
  IF s # Empty /\ IsSpace(s[Len(s)])
  THEN TrimRight(SubSeq(s, 1, Len(s) - 1)) ELSE s

\* strings.TrimSpace
TrimSpace(s) == TrimRight(TrimLeft(s))

\* strings.ToLower
ToLowerChar(c) ==
  IF Ord(c) >= Ord("A") /\ Ord(c) <= Ord("Z")
  THEN Alphabet[Ord(c) - Ord("A") + Ord("a")] ELSE c

ToLower(s) == [i \in 1..Len(s) |-> ToLowerChar(s[i])]

\* strings.Contains
Contains(s, sub) ==
  \E i \in 0..(Len(s) - Len(sub)) : SubSeq(s, i + 1, i + Len(sub)) = sub

\* the < of Go strings: byte-wise lexicographic
RECURSIVE StrLess(_, _)
StrLess(a, b) ==
  IF b = Empty THEN FALSE
  ELSE IF a = Empty THEN TRUE
  ELSE IF Head(a) # Head(b) THEN Ord(Head(a)) < Ord(Head(b))
  ELSE StrLess(Tail(a), Tail(b))

\* sort.Strings: the ascending arrangement of a list of strings
RECURSIVE Insert(_, _)
Insert(x, sorted) ==
  IF sorted = Empty THEN << x >>
  ELSE IF StrLess(Head(sorted), x) \/ Head(sorted) = x
       THEN << Head(sorted) >> \o Insert(x, Tail(sorted))
       ELSE << x >> \o sorted

\* (fault) the list is left in enumeration order
SortStrings_Unsorted(l) == l

RECURSIVE SortStrings(_)
SortStrings(l) ==
  IF l = Empty THEN Empty ELSE Insert(Head(l), SortStrings(Tail(l)))

\* strings.Join
RECURSIVE Join(_, _)
Join(l, sep) ==
  IF l = Empty THEN Empty
  ELSE IF Len(l) = 1 THEN l[1]
  ELSE l[1] \o sep \o Join(Tail(l), sep)

\* ------------------------------------------------------------------ errors
Nil == "nil"
ErrNotExist == "os.ErrNotExist"
\* *fs.PathError as os.ReadFile returns it for a missing file
ErrPathNotExist == "open /etc/machine-id: no such file or directory"
ErrPermission == "open /etc/machine-id: permission denied"
ErrNetwork == "network down"
ErrNoInterfaces == "no valid network interfaces found for hardware ID fallback"
ErrEmptyMachineID == "empty machine id"

Unwrap(e) == IF e = ErrPathNotExist THEN ErrNotExist ELSE Nil

\* errors.Is
RECURSIVE ErrorsIs(_, _)
ErrorsIs(e, target) ==
  IF e = Nil THEN FALSE
  ELSE IF e = target THEN TRUE
  ELSE ErrorsIs(Unwrap(e), target)

\* ------------------------------------------------------------------ hasher
\* hex(sha256(t)), idealised as collision free: the digest is represented
\* by its tagged preimage.
Sha256Hex(t) == << "#" >> \o t

\* (fault) the input is tested and hashed untrimmed
protect_NoTrim(s) ==
  IF s = Empty THEN [hash |-> Empty, err |-> ErrEmptyMachineID]
  ELSE [hash |-> Sha256Hex(s), err |-> Nil]

\* protect
protect(s) ==
  LET t == TrimSpace(s) IN
  IF t = Empty THEN [hash |-> Empty, err |-> ErrEmptyMachineID]
  ELSE [hash |-> Sha256Hex(t), err |-> Nil]

\* ---------------------------------------------------------- hardware id
HexDigits == << "0", "1", "2", "3", "4", "5", "6", "7",
                "8", "9", "a", "b", "c", "d", "e", "f" >>

HexByte(b) == << HexDigits[(b \div 16) + 1], HexDigits[(b % 16) + 1] >>

\* net.HardwareAddr.String
RECURSIVE HardwareAddrString(_)
HardwareAddrString(a) ==
  IF a = Empty THEN Empty
  ELSE IF Len(a) = 1 THEN HexByte(a[1])
  ELSE HexByte(a[1]) \o << ":" >> \o HardwareAddrString(Tail(a))

VirtualMarkers ==
  { << "d", "o", "c", "k", "e", "r" >>, << "v", "e", "t", "h" >>,
    << "t", "u", "n" >>, << "t", "a", "p" >> }

\* (fault) the name is matched without lower-casing it
Skipped_CaseSensitive(iface) ==
  \/ iface.Loopback
  \/ Len(iface.HardwareAddr) = 0
  \/ \E m \in VirtualMarkers : Contains(iface.Name, m)

\* the two filters of the loop of getHardwareId
Skipped(iface) ==
  \/ iface.Loopback
  \/ Len(iface.HardwareAddr) = 0
  \/ \E m \in VirtualMarkers : Contains(ToLower(iface.Name), m)

RECURSIVE CollectMacs(_)
CollectMacs(ifaces) ==
  IF ifaces = Empty THEN Empty
  ELSE (IF Skipped(Head(ifaces)) THEN Empty
        ELSE << HardwareAddrString(Head(ifaces).HardwareAddr) >>)
       \o CollectMacs(Tail(ifaces))

\* (fault) an empty list of addresses is joined and returned
getHardwareId_NoEmptyCheck(r) ==
  IF r.err # Nil THEN [id |-> Empty, err |-> r.err]
  ELSE [id |-> Join(SortStrings(CollectMacs(r.ifaces)), << "," >>),
        err |-> Nil]

\* getHardwareId, given what netInterfaces() returned
getHardwareId(r) ==
  IF r.err # Nil THEN [id |-> Empty, err |-> r.err]
  ELSE LET macs == SortStrings(CollectMacs(r.ifaces)) IN
       IF Len(macs) = 0 THEN [id |-> Empty, err |-> ErrNoInterfaces]
       ELSE [id |-> Join(macs, << "," >>), err |-> Nil]

\* ------------------------------------------------------------------ inputs
\* what getEnvTypeFunc can return
EnvTypes == { << "v", "m" >>, << "p", "h", "y", "s", "i", "c", "a", "l" >> }

\* what getMachineIDFunc can return: an identity, a whitespace-only
\* identity, an empty identity, "not found" (bare and wrapped, with and
\* without a value beside it) and a fatal error
MachineIDResults ==
  { [id |-> << "u", "1" >>, err |-> Nil],
    [id |-> << " " >>, err |-> Nil],
    [id |-> Empty, err |-> Nil],
    [id |-> Empty, err |-> ErrNotExist],
    [id |-> << "x" >>, err |-> ErrPathNotExist],
    [id |-> Empty, err |-> ErrPermission] }

Iface(name, loopback, addr) ==
  [Name |-> name, Loopback |-> loopback, HardwareAddr |-> addr]

Lo == Iface(<< "l", "o" >>, TRUE, << 0, 0, 0, 0, 0, 0 >>)
Docker0 == Iface(<< "d", "o", "c", "k", "e", "r", "0" >>, FALSE,
                 << 2, 66, 0, 0, 0, 0 >>)
Veth1234 == Iface(<< "v", "e", "t", "h", "1", "2", "3", "4" >>, FALSE,
                  << 2, 66, 0, 0, 0, 1 >>)
Eth0 == Iface(<< "e", "t", "h", "0" >>, FALSE,
              << 170, 187, 204, 221, 238, 255 >>)
Eth1 == Iface(<< "e", "t", "h", "1" >>, FALSE, << 34, 34, 34, 34, 34, 34 >>)
Eth0Low == Iface(<< "e", "t", "h", "0" >>, FALSE,
                 << 17, 17, 17, 17, 17, 17 >>)

\* what netInterfaces can return
InterfaceResults ==
  { [ifaces |-> Empty, err |-> ErrNetwork],
    [ifaces |-> Empty, err |-> Nil],
    [ifaces |-> << Lo, Docker0, Veth1234 >>, err |-> Nil],
    [ifaces |-> << Lo, Docker0, Veth1234, Eth0 >>, err |-> Nil],
    [ifaces |-> << Eth1, Eth0Low >>, err |-> Nil] }

\* the appID arguments of ProtectedID (one that protect's trimming changes)
AppIDs == { << "a", " " >> }

\* the public operations a caller can invoke
Ops ==
  { [fn |-> "loadInfo", appID |-> Empty], [fn |-> "ID", appID |-> Empty] }
  \cup { [fn |-> "ProtectedID", appID |-> k] : k \in AppIDs }

NoRet == [val |-> Empty, err |-> "none"]
NoOp == [fn |-> "loadInfo", appID |-> Empty]

\* ------------------------------------------------------------------- state
VARIABLES
  cachedRawID,    \* package variable cachedRawID
  cachedPrefix,   \* package variable cachedPrefix
  initialized,    \* package variable initialized
  mu,             \* TRUE iff the mutex mu is locked
  pc,             \* the position of each caller
  op,             \* the public function each caller is in, with its argument
  prefix,         \* loadInfo's local prefix
  id,             \* loadInfo's local id
  err,            \* loadInfo's local err / the err of the public function
  hash,           \* the local hash of ID and ProtectedID
  ret,            \* what the caller's call is returning
  calls,          \* the number of calls started so far
  probes,         \* the probes the caller's current call invoked, in order,
                  \* each with what it returned
  envCalls,       \* invocations of getEnvTypeFunc so far
  midCalls,       \* invocations of getMachineIDFunc so far
  ifCalls         \* invocations of netInterfaces so far

cache == << cachedRawID, cachedPrefix, initialized >>
locals == << prefix, id, err, hash >>
counters == << envCalls, midCalls, ifCalls >>
vars == << cachedRawID, cachedPrefix, initialized, mu, pc, op, prefix, id,
           err, hash, ret, calls, probes, envCalls, midCalls, ifCalls >>

Init ==
  /\ cachedRawID = Empty
  /\ cachedPrefix = Empty
  /\ initialized = FALSE
  /\ mu = FALSE
  /\ pc = [p \in Procs |-> "idle"]
  /\ op = [p \in Procs |-> NoOp]
  /\ prefix = [p \in Procs |-> Empty]
  /\ id = [p \in Procs |-> Empty]
  /\ err = [p \in Procs |-> Nil]
  /\ hash = [p \in Procs |-> Empty]
  /\ ret = [p \in Procs |-> NoRet]
  /\ calls = 0
  /\ probes = [p \in Procs |-> Empty]
  /\ envCalls = 0
  /\ midCalls = 0
  /\ ifCalls = 0

\* ----------------------------------------------------------------- actions
\* a caller enters one of the public functions O
CallOf(p, O) ==
  /\ pc[p] = "idle"
  /\ calls < MaxCalls
  /\ \E o \in O : op' = [op EXCEPT ![p] = o]
  /\ calls' = calls + 1
  /\ pc' = [pc EXCEPT ![p] = "Lock"]
  /\ UNCHANGED << cache, mu, locals, ret, probes, counters >>

\* a caller enters loadInfo, ID or ProtectedID
Call(p) == CallOf(p, Ops)

\* (fault) a lock that never blocks
CanLock_Always(m) == TRUE

\* mu.Lock() blocks while the mutex is held
CanLock(m) == ~m

loadInfo_Lock(p) ==
  /\ pc[p] = "Lock"
  /\ CanLock(mu)
  /\ mu' = TRUE
  /\ pc' = [pc EXCEPT ![p] = "Check"]
  /\ UNCHANGED << cache, op, locals, ret, calls, probes, counters >>

\* (fault) the fast path is never taken
FastPath_Never(init) == FALSE

\* if initialized { return nil }
FastPath(init) == init

loadInfo_Check(p) ==
  /\ pc[p] = "Check"
  /\ IF FastPath(initialized)
     THEN /\ err' = [err EXCEPT ![p] = Nil]
          /\ pc' = [pc EXCEPT ![p] = "Unlock"]
     ELSE /\ pc' = [pc EXCEPT ![p] = "GetEnvType"]
          /\ UNCHANGED err
  /\ UNCHANGED << cache, mu, op, prefix, id, hash, ret, calls, probes,
                  counters >>

\* (fault) the classifier's result is written to the cache at once
loadInfo_GetEnvType_Eager(p) ==
  /\ pc[p] = "GetEnvType"
  /\ \E t \in EnvTypes :
       /\ prefix' = [prefix EXCEPT ![p] = t]
       /\ cachedPrefix' = t
       /\ probes' = [probes EXCEPT ![p] =
            Append(@, [fn |-> "getEnvTypeFunc", id |-> t, err |-> Nil])]
  /\ envCalls' = envCalls + 1
  /\ pc' = [pc EXCEPT ![p] = "GetMachineID"]
  /\ UNCHANGED << cachedRawID, initialized, mu, op, id, err, hash, ret,
                  calls, midCalls, ifCalls >>

\* prefix := getEnvTypeFunc()
loadInfo_GetEnvType(p) ==
  /\ pc[p] = "GetEnvType"
  /\ \E t \in EnvTypes :
       /\ prefix' = [prefix EXCEPT ![p] = t]
       /\ probes' = [probes EXCEPT ![p] =
            Append(@, [fn |-> "getEnvTypeFunc", id |-> t, err |-> Nil])]
  /\ envCalls' = envCalls + 1
  /\ pc' = [pc EXCEPT ![p] = "GetMachineID"]
  /\ UNCHANGED << cache, mu, op, id, err, hash, ret, calls, midCalls,
                  ifCalls >>

\* (fault) an empty identity without an error is accepted
NeedsFallback_NoEmpty(i, e) == ErrorsIs(e, ErrNotExist)

\* the condition of the fallback branch
NeedsFallback(i, e) == ErrorsIs(e, ErrNotExist) \/ (e = Nil /\ i = Empty)

\* (fault) "not found" is treated like any other error
AfterMachineID_NoFallback(i, e) ==
  IF e = Nil /\ i = Empty THEN "GetHardwareId"
  ELSE IF e # Nil THEN "Unlock"
  ELSE "StoreRawID"

\* (fault) every error of the primary source leads to the fallback
AfterMachineID_AnyError(i, e) ==
  IF e # Nil \/ i = Empty THEN "GetHardwareId" ELSE "StoreRawID"

\* (fault) the fallback also runs after the primary source delivered
AfterMachineID_AlwaysFallback(i, e) ==
  IF e # Nil /\ ~NeedsFallback(i, e) THEN "Unlock" ELSE "GetHardwareId"

\* where loadInfo goes once getMachineIDFunc has returned (i, e)
AfterMachineID(i, e) ==
  IF NeedsFallback(i, e) THEN "GetHardwareId"
  ELSE IF e # Nil THEN "Unlock"
  ELSE "StoreRawID"

\* id, err := getMachineIDFunc(), a function returning one of R, and the
\* branch on its result
GetMachineIDOf(p, R) ==
  /\ pc[p] = "GetMachineID"
  /\ \E r \in R :
       /\ id' = [id EXCEPT ![p] = r.id]
       /\ err' = [err EXCEPT ![p] = r.err]
       /\ probes' = [probes EXCEPT ![p] =
            Append(@, [fn |-> "getMachineIDFunc", id |-> r.id, err |-> r.err])]
       /\ pc' = [pc EXCEPT ![p] = AfterMachineID(r.id, r.err)]
  /\ midCalls' = midCalls + 1
  /\ UNCHANGED << cache, mu, op, prefix, hash, ret, calls, envCalls, ifCalls >>

\* id, err := getMachineIDFunc() and the branch on its result
loadInfo_GetMachineID(p) == GetMachineIDOf(p, MachineIDResults)

\* where loadInfo goes once getHardwareId has returned error e
AfterHardwareId(e) == IF e # Nil THEN "Unlock" ELSE "StoreRawID"

\* (fault) the fallback's error is tested but the primary's is returned
loadInfo_GetHardwareId_KeepsErr(p) ==
  /\ pc[p] = "GetHardwareId"
  /\ \E r \in InterfaceResults :
       LET h == getHardwareId(r) IN
       /\ id' = [id EXCEPT ![p] = h.id]
       /\ probes' = [probes EXCEPT ![p] =
            Append(@, [fn |-> "getHardwareId", id |-> h.id, err |-> h.err])]
       /\ pc' = [pc EXCEPT ![p] = IF h.err # Nil THEN "Unlock"
                                  ELSE "StoreRawID"]
  /\ ifCalls' = ifCalls + 1
  /\ UNCHANGED << cache, mu, op, prefix, err, hash, ret, calls, envCalls,
                  midCalls >>

\* id, err = getHardwareId() and the check of its error
loadInfo_GetHardwareId(p) ==
  /\ pc[p] = "GetHardwareId"
  /\ \E r \in InterfaceResults :
       LET h == getHardwareId(r) IN
       /\ id' = [id EXCEPT ![p] = h.id]
       /\ err' = [err EXCEPT ![p] = h.err]
       /\ probes' = [probes EXCEPT ![p] =
            Append(@, [fn |-> "getHardwareId", id |-> h.id, err |-> h.err])]
       /\ pc' = [pc EXCEPT ![p] = AfterHardwareId(h.err)]
  /\ ifCalls' = ifCalls + 1
  /\ UNCHANGED << cache, mu, op, prefix, hash, ret, calls, envCalls,
                  midCalls >>

\* cachedRawID = id
loadInfo_StoreRawID(p) ==
  /\ pc[p] = "StoreRawID"
  /\ cachedRawID' = id[p]
  /\ pc' = [pc EXCEPT ![p] = "StorePrefix"]
  /\ UNCHANGED << cachedPrefix, initialized, mu, op, locals, ret, calls,
                  probes, counters >>

\* cachedPrefix = prefix
loadInfo_StorePrefix(p) ==
  /\ pc[p] = "StorePrefix"
  /\ cachedPrefix' = prefix[p]
  /\ pc' = [pc EXCEPT ![p] = "StoreInitialized"]
  /\ UNCHANGED << cachedRawID, initialized, mu, op, locals, ret, calls,
                  probes, counters >>

\* initialized = true; return nil
loadInfo_StoreInitialized(p) ==
  /\ pc[p] = "StoreInitialized"
  /\ initialized' = TRUE
  /\ err' = [err EXCEPT ![p] = Nil]
  /\ pc' = [pc EXCEPT ![p] = "Unlock"]
  /\ UNCHANGED << cachedRawID, cachedPrefix, mu, op, prefix, id, hash, ret,
                  calls, probes, counters >>

\* (fault) the deferred unlock is missing on the error returns
loadInfo_Unlock_LeakOnError(p) ==
  /\ pc[p] = "Unlock"
  /\ mu' = (err[p] # Nil)
  /\ IF op[p].fn = "loadInfo" \/ err[p] # Nil
     THEN /\ ret' = [ret EXCEPT ![p] = [val |-> Empty, err |-> err[p]]]
          /\ pc' = [pc EXCEPT ![p] = "Return"]
     ELSE /\ pc' = [pc EXCEPT ![p] = "Protect"]
          /\ UNCHANGED ret
  /\ prefix' = [prefix EXCEPT ![p] = Empty]
  /\ id' = [id EXCEPT ![p] = Empty]
  /\ err' = [err EXCEPT ![p] = Nil]
  /\ probes' = [probes EXCEPT ![p] = Empty]
  /\ UNCHANGED << cache, op, hash, calls, counters >>

\* the deferred mu.Unlock() and loadInfo's return (its locals go out of
\* scope), with the caller's test of the error loadInfo returned
loadInfo_Unlock(p) ==
  /\ pc[p] = "Unlock"
  /\ mu' = FALSE
  /\ IF op[p].fn = "loadInfo" \/ err[p] # Nil
     THEN /\ ret' = [ret EXCEPT ![p] = [val |-> Empty, err |-> err[p]]]
          /\ pc' = [pc EXCEPT ![p] = "Return"]
     ELSE /\ pc' = [pc EXCEPT ![p] = "Protect"]
          /\ UNCHANGED ret
  /\ prefix' = [prefix EXCEPT ![p] = Empty]
  /\ id' = [id EXCEPT ![p] = Empty]
  /\ err' = [err EXCEPT ![p] = Nil]
  /\ probes' = [probes EXCEPT ![p] = Empty]
  /\ UNCHANGED << cache, op, hash, calls, counters >>

\* (fault) the appID is appended without the separator
HashInput_NoSeparator(o, raw) ==
  IF o.fn = "ProtectedID" THEN raw \o o.appID ELSE raw

\* the string ID and ProtectedID hash
HashInput(o, raw) ==
  IF o.fn = "ProtectedID" THEN raw \o << ":" >> \o o.appID ELSE raw

\* hash, err := protect(cachedRawID) / protect(cachedRawID + ":" + appID)
ID_Protect(p) ==
  /\ pc[p] = "Protect"
  /\ LET r == protect(HashInput(op[p], cachedRawID)) IN
     IF r.err # Nil
     THEN /\ ret' = [ret EXCEPT ![p] = [val |-> Empty, err |-> r.err]]
          /\ pc' = [pc EXCEPT ![p] = "Return"]
          /\ UNCHANGED hash
     ELSE /\ hash' = [hash EXCEPT ![p] = r.hash]
          /\ pc' = [pc EXCEPT ![p] = "Format"]
          /\ UNCHANGED ret
  /\ UNCHANGED << cache, mu, op, prefix, id, err, calls, probes, counters >>

\* return cachedPrefix + ":" + hash, nil
ID_Format(p) ==
  /\ pc[p] = "Format"
  /\ ret' = [ret EXCEPT ![p] =
       [val |-> cachedPrefix \o << ":" >> \o hash[p], err |-> Nil]]
  /\ pc' = [pc EXCEPT ![p] = "Return"]
  /\ UNCHANGED << cache, mu, op, locals, calls, probes, counters >>

\* the call returns to the caller; its arguments, locals and result go out
\* of scope
Return(p) ==
  /\ pc[p] = "Return"
  /\ pc' = [pc EXCEPT ![p] = "idle"]
  /\ op' = [op EXCEPT ![p] = NoOp]
  /\ ret' = [ret EXCEPT ![p] = NoRet]
  /\ hash' = [hash EXCEPT ![p] = Empty]
  /\ UNCHANGED << cache, mu, prefix, id, err, calls, probes, counters >>

Next ==
  \E p \in Procs :
    \/ Call(p)
    \/ loadInfo_Lock(p)
    \/ loadInfo_Check(p)
    \/ loadInfo_GetEnvType(p)
    \/ loadInfo_GetMachineID(p)
    \/ loadInfo_GetHardwareId(p)
    \/ loadInfo_StoreRawID(p)
    \/ loadInfo_StorePrefix(p)
    \/ loadInfo_StoreInitialized(p)
    \/ loadInfo_Unlock(p)
    \/ ID_Protect(p)
    \/ ID_Format(p)
    \/ Return(p)

Spec == Init /\ [][Next]_vars

\* ------------------------------------------------------------ scheduling
\* the results of getMachineIDFunc that lead to the different returns of
\* loadInfo: an identity, not found (fallback), a fatal error
FairMachineIDResults ==
  { [id |-> << "u", "1" >>, err |-> Nil],
    [id |-> Empty, err |-> ErrNotExist],
    [id |-> Empty, err |-> ErrPermission] }

Fair_GetMachineID(p) == GetMachineIDOf(p, FairMachineIDResults)

\* prefix := getEnvTypeFunc() on one kind of machine
Fair_GetEnvType(p) ==
  /\ pc[p] = "GetEnvType"
  /\ \E t \in { << "v", "m" >> } :
       /\ prefix' = [prefix EXCEPT ![p] = t]
       /\ probes' = [probes EXCEPT ![p] =
            Append(@, [fn |-> "getEnvTypeFunc", id |-> t, err |-> Nil])]
  /\ envCalls' = envCalls + 1
  /\ pc' = [pc EXCEPT ![p] = "GetMachineID"]
  /\ UNCHANGED << cache, mu, op, id, err, hash, ret, calls, midCalls,
                  ifCalls >>

\* the steps of caller p that do not wait: every probe returns, and the
\* statements between them are executed
Proceed(p) ==
  \/ loadInfo_Check(p)
  \/ Fair_GetEnvType(p)
  \/ Fair_GetMachineID(p)
  \/ loadInfo_GetHardwareId(p)
  \/ loadInfo_StoreRawID(p)
  \/ loadInfo_StorePrefix(p)
  \/ loadInfo_StoreInitialized(p)
  \/ loadInfo_Unlock(p)
  \/ ID_Protect(p)
  \/ ID_Format(p)
  \/ Return(p)

NextFair ==
  \E p \in Procs :
    \/ Call(p)
    \/ loadInfo_Lock(p)
    \/ Proceed(p)

\* a running caller keeps running, and a fair mutex: a caller that finds
\* the lock free again and again acquires it
Fairness ==
  \A p \in Procs : WF_vars(Proceed(p)) /\ SF_vars(loadInfo_Lock(p))

SpecFair == Init /\ [][NextFair]_vars /\ Fairness

\* ------------------------------------------- the concurrent first calls
\* TestLoadInfo_Concurrency: the callers all call ID() and getMachineIDFunc
\* always returns the same identity; no fallback takes place.
ConcurrentIdentity == [id |-> << "u", "1" >>, err |-> Nil]

Concurrency_Call(p) == CallOf(p, { [fn |-> "ID", appID |-> Empty] })

Concurrency_GetMachineID(p) == GetMachineIDOf(p, { ConcurrentIdentity })

NextConcurrency ==
  \E p \in Procs :
    \/ Concurrency_Call(p)
    \/ loadInfo_Lock(p)
    \/ loadInfo_Check(p)
    \/ loadInfo_GetEnvType(p)
    \/ Concurrency_GetMachineID(p)
    \/ loadInfo_StoreRawID(p)
    \/ loadInfo_StorePrefix(p)
    \/ loadInfo_StoreInitialized(p)
    \/ loadInfo_Unlock(p)
    \/ ID_Protect(p)
    \/ ID_Format(p)
    \/ Return(p)

SpecConcurrency == Init /\ [][NextConcurrency]_vars

\* ------------------------------------------------ the hardware fallback
\* TestGetHardwareID_Logic: netInterfaces is replaced by a function that
\* returns a given list and error, and getHardwareId is called.
Tun0 == Iface(<< "T", "U", "N", "0" >>, FALSE, << 10, 0, 0, 0, 0, 1 >>)
Tap0 == Iface(<< "t", "a", "p", "0" >>, FALSE, << 10, 0, 0, 0, 0, 2 >>)
NoAddr == Iface(<< "e", "t", "h", "2" >>, FALSE, Empty)

\* (docker0 and veth1234 occur in the lists of the test)
InterfacePool == { Lo, Eth0, Eth1, Eth0Low, Tun0, Tap0, NoAddr }

BoundedSeqs(S, n) == UNION { [1..k -> S] : k \in 0..n }

\* what the replaced netInterfaces returns: the lists of the test, every
\* list of up to MaxIfaces interfaces, and a failed enumeration
HardwareInputs ==
  InterfaceResults
  \cup { [ifaces |-> l, err |-> Nil] : l \in BoundedSeqs(InterfacePool, MaxIfaces) }
  \cup { [ifaces |-> << Eth0 >>, err |-> ErrNetwork] }

\* the test runs in one goroutine
TestCaller == 1

\* netInterfaces = mockInterfaces(...); id, err := getHardwareId()
Hardware_Call(p) ==
  /\ p = TestCaller
  /\ pc[p] = "idle"
  /\ \E r \in HardwareInputs :
       LET h == getHardwareId(r) IN
       /\ probes' = [probes EXCEPT ![p] =
            << [fn |-> "netInterfaces", ifaces |-> r.ifaces, err |-> r.err] >>]
       /\ id' = [id EXCEPT ![p] = h.id]
       /\ err' = [err EXCEPT ![p] = h.err]
  /\ pc' = [pc EXCEPT ![p] = "Tested"]
  /\ UNCHANGED << cache, mu, op, prefix, hash, ret, calls, counters >>

\* the test case ends
Hardware_Done(p) ==
  /\ pc[p] = "Tested"
  /\ pc' = [pc EXCEPT ![p] = "idle"]
  /\ probes' = [probes EXCEPT ![p] = Empty]
  /\ id' = [id EXCEPT ![p] = Empty]
  /\ err' = [err EXCEPT ![p] = Nil]
  /\ UNCHANGED << cache, mu, op, prefix, hash, ret, calls, counters >>

NextHardware == \E p \in Procs : Hardware_Call(p) \/ Hardware_Done(p)

SpecHardware == Init /\ [][NextHardware]_vars

\* ---------------------------------------------------------- the hasher
\* TestProtect: protect is called on a given string.
HashChars == { " ", "\t", "\n", "a", "b" }

HashInputs == BoundedSeqs(HashChars, MaxStrLen)

\* hash, err := protect(input)
Protect_Call(p) ==
  /\ p = TestCaller
  /\ pc[p] = "idle"
  /\ \E s \in HashInputs :
       LET r == protect(s) IN
       /\ op' = [op EXCEPT ![p] = [fn |-> "protect", appID |-> s]]
       /\ hash' = [hash EXCEPT ![p] = r.hash]
       /\ err' = [err EXCEPT ![p] = r.err]
  /\ pc' = [pc EXCEPT ![p] = "Tested"]
  /\ UNCHANGED << cache, mu, prefix, id, ret, calls, probes, counters >>

\* the test case ends
Protect_Done(p) ==
  /\ pc[p] = "Tested"
  /\ pc' = [pc EXCEPT ![p] = "idle"]
  /\ op' = [op EXCEPT ![p] = NoOp]
  /\ hash' = [hash EXCEPT ![p] = Empty]
  /\ err' = [err EXCEPT ![p] = Nil]
  /\ UNCHANGED << cache, mu, prefix, id, ret, calls, probes, counters >>

NextHash == \E p \in Procs : Protect_Call(p) \/ Protect_Done(p)

SpecHash == Init /\ [][NextHash]_vars

\* ------------------------------------------------- the scoped identifiers
\* TestID_And_ProtectedID_Flow: getMachineIDFunc returns a fixed identity
\* and the callers ask for ID() and for ProtectedID of several appIDs.
ScopeKeys == { Empty, << "a" >>, << "a", " " >>, << "b" >> }

ScopedOps ==
  { [fn |-> "ID", appID |-> Empty] }
  \cup { [fn |-> "ProtectedID", appID |-> k] : k \in ScopeKeys }

ScopedIdentity == [id |-> << "u", "1" >>, err |-> Nil]

Scoped_Call(p) == CallOf(p, ScopedOps)

Scoped_GetMachineID(p) == GetMachineIDOf(p, { ScopedIdentity })

NextScoped ==
  \E p \in Procs :
    \/ Scoped_Call(p)
    \/ loadInfo_Lock(p)
    \/ loadInfo_Check(p)
    \/ loadInfo_GetEnvType(p)
    \/ Scoped_GetMachineID(p)
    \/ loadInfo_StoreRawID(p)
    \/ loadInfo_StorePrefix(p)
    \/ loadInfo_StoreInitialized(p)
    \/ loadInfo_Unlock(p)
    \/ ID_Protect(p)
    \/ ID_Format(p)
    \/ Return(p)

SpecScoped == Init /\ [][NextScoped]_vars

\* ------------------------------------------ the platforms' primary source
\* strings.Split(s, c) for a one-character separator c, called with
\* piece = "": the pieces of s between the separators
RECURSIVE SplitAt(_, _, _)
SplitAt(s, c, piece) ==
  IF s = Empty THEN << piece >>
  ELSE IF Head(s) = c THEN << piece >> \o SplitAt(Tail(s), c, Empty)
  ELSE SplitAt(Tail(s), c, Append(piece, Head(s)))

\* strings.Trim(s, cutset)
RECURSIVE Trim(_, _)
Trim(s, cutset) ==
  IF s = Empty THEN s
  ELSE IF Head(s) \in cutset THEN Trim(Tail(s), cutset)
  ELSE IF s[Len(s)] \in cutset THEN Trim(SubSeq(s, 1, Len(s) - 1), cutset)
  ELSE s

ErrEmptyMachineIDFile == "empty machine-id file"
ErrIoreg == "exit status 1"

\* what the platform offers: on Linux the result of
\* os.ReadFile("/etc/machine-id"), on Darwin the output of ioreg and the
\* result of cmd.Run()
Source(os, data, e) == [os |-> os, data |-> data, err |-> e]

\* (Linux) strings.TrimSpace of the file's content, or the read error
readFile(f) ==
  IF f.err # Nil THEN [id |-> Empty, err |-> f.err]
  ELSE [id |-> TrimSpace(f.data), err |-> Nil]

\* (Linux) getMachineID
getMachineID_linux(f) ==
  LET r == readFile(f) IN
  IF r.err # Nil THEN [id |-> Empty, err |-> r.err]
  ELSE IF r.id = Empty THEN [id |-> Empty, err |-> ErrEmptyMachineIDFile]
  ELSE [id |-> r.id, err |-> Nil]

IOPlatformUUID ==
  << "I", "O", "P", "l", "a", "t", "f", "o", "r", "m", "U", "U", "I", "D" >>

\* (Darwin) the value of the first line that contains IOPlatformUUID and
\* has exactly one "="; ("", nil) when there is no such line
RECURSIVE ParseIoreg(_)
ParseIoreg(lines) ==
  IF lines = Empty THEN [id |-> Empty, err |-> Nil]
  ELSE LET line == Head(lines)
           parts == SplitAt(line, "=", Empty)
       IN IF Contains(line, IOPlatformUUID) /\ Len(parts) = 2
          THEN [id |-> Trim(parts[2], { " ", "\"" }), err |-> Nil]
          ELSE ParseIoreg(Tail(lines))

\* (Darwin) getMachineID
getMachineID_darwin(o) ==
  IF o.err # Nil THEN [id |-> Empty, err |-> o.err]
  ELSE ParseIoreg(SplitAt(o.data, "\n", Empty))

\* getMachineID as the build tags select it
getMachineID(s) ==
  IF s.os = "linux" THEN getMachineID_linux(s) ELSE getMachineID_darwin(s)

\* /etc/machine-id: with an identity, empty, a lone newline, blanks,
\* missing, unreadable
MachineIDFiles ==
  { Source("linux", << "u", "1", "\n" >>, Nil),
    Source("linux", Empty, Nil),
    Source("linux", << "\n" >>, Nil),
    Source("linux", << " ", "\n" >>, Nil),
    Source("linux", Empty, ErrPathNotExist),
    Source("linux", Empty, ErrPermission) }

IoregHeader ==
  << "+", "-", "o", " ", "J", "1", "3", "7", "A", "P", "\n", "{", "\n" >>

UUIDLine(v) ==
  << " ", " ", "\"" >> \o IOPlatformUUID \o << "\"", " ", "=", " ", "\"" >>
    \o v \o << "\"", "\n" >>

SerialLine ==
  << " ", " ", "\"", "S", "N", "\"", " ", "=", " ", "\"", "C", "0", "\"", "\n" >>

\* ioreg: with a UUID, without the UUID line, with an empty UUID, failing
IoregOutputs ==
  { Source("darwin", IoregHeader \o SerialLine \o UUIDLine(<< "u", "2" >>), Nil),
    Source("darwin", IoregHeader \o SerialLine, Nil),
    Source("darwin", IoregHeader \o UUIDLine(Empty), Nil),
    Source("darwin", Empty, ErrIoreg) }

PlatformSources == MachineIDFiles \cup IoregOutputs

Platform_Call(p) == CallOf(p, { [fn |-> "ID", appID |-> Empty] })

\* id, err := getMachineIDFunc() with the platform's getMachineID plugged
\* in, and the branch on its result
Platform_GetMachineID(p) ==
  /\ pc[p] = "GetMachineID"
  /\ \E s \in PlatformSources :
       LET r == getMachineID(s) IN
       /\ id' = [id EXCEPT ![p] = r.id]
       /\ err' = [err EXCEPT ![p] = r.err]
       /\ probes' = [probes EXCEPT ![p] =
            Append(@, [fn |-> "getMachineIDFunc", id |-> r.id, err |-> r.err,
                       src |-> s])]
       /\ pc' = [pc EXCEPT ![p] = AfterMachineID(r.id, r.err)]
  /\ midCalls' = midCalls + 1
  /\ UNCHANGED << cache, mu, op, prefix, hash, ret, calls, envCalls, ifCalls >>

NextPlatform ==
  \E p \in Procs :
    \/ Platform_Call(p)
    \/ loadInfo_Lock(p)
    \/ loadInfo_Check(p)
    \/ loadInfo_GetEnvType(p)
    \/ Platform_GetMachineID(p)
    \/ loadInfo_GetHardwareId(p)
    \/ loadInfo_StoreRawID(p)
    \/ loadInfo_StorePrefix(p)
    \/ loadInfo_StoreInitialized(p)
    \/ loadInfo_Unlock(p)
    \/ ID_Protect(p)
    \/ ID_Format(p)
    \/ Return(p)

SpecPlatform == Init /\ [][NextPlatform]_vars

\* ------------------------------------------------------------ properties
\* the positions between mu.Lock() and the deferred mu.Unlock()
CriticalSection ==
  { "Check", "GetEnvType", "GetMachineID", "GetHardwareId", "StoreRawID",
    "StorePrefix", "StoreInitialized", "Unlock" }

\* the positions of ID and ProtectedID after loadInfo has returned nil
AfterLoadInfo == { "Protect", "Format" }

IsNotFound(e) == e \in { ErrNotExist, ErrPathNotExist }

\* the primary source reported "not found" or an empty identity
TriggersFallback(r) == IsNotFound(r.err) \/ (r.err = Nil /\ r.id = Empty)

\* loadInfo of caller p is about to return, having made an attempt
AttemptEnds(p) == pc[p] = "Unlock" /\ probes[p] # Empty

ProbeFn(p, i) == IF i <= Len(probes[p]) THEN probes[p][i].fn ELSE "none"

\* a caller whose loadInfo ends with an error returns ("", that error)
ErrorReturnedVerbatim ==
  \A p \in Procs :
    (pc[p] = "Unlock" /\ err[p] # Nil /\ pc'[p] # pc[p])
      => (pc'[p] = "Return" /\ ret'[p] = [val |-> Empty, err |-> err[p]])

\* C1: once initialized is true, no step of any caller invokes the
\* classifier, the primary source or the interface enumerator: the three
\* call counters never change again (so the primary counter of a first
\* successful call stays at 1).
C1_IdempotentCaching ==
  [][initialized => (envCalls' = envCalls /\ midCalls' = midCalls
                     /\ ifCalls' = ifCalls)]_vars

\* a later call has taken the fast path after a first-call resolution
C1_Witness ==
  \E p \in Procs :
    /\ pc[p] = "Unlock" /\ probes[p] = Empty /\ initialized
    /\ midCalls = 1 /\ calls >= 2

\* C2: when loadInfo is about to return an error, the cache record is what
\* it was before the call: initialized is false and cachedRawID and
\* cachedPrefix have the values they had (the empty strings of an
\* unresolved cache).
C2_FailedAttemptKeepsCache ==
  \A p \in Procs :
    (pc[p] = "Unlock" /\ err[p] # Nil)
      => (~initialized /\ cachedRawID = Empty /\ cachedPrefix = Empty)

\* an attempt has failed after the primary source and the fallback ran
C2_Witness ==
  \E p \in Procs :
    pc[p] = "Unlock" /\ err[p] # Nil /\ Len(probes[p]) = 3 /\ midCalls >= 2

C3_ProbesOfAttempt ==
  \A p \in Procs :
    /\ (pc[p] = "Unlock" /\ probes[p] = Empty) => initialized
    /\ AttemptEnds(p) =>
         /\ Len(probes[p]) >= 2
         /\ ProbeFn(p, 1) = "getEnvTypeFunc"
         /\ ProbeFn(p, 2) = "getMachineIDFunc"
         /\ TriggersFallback(probes[p][2]) => ProbeFn(p, 3) = "getHardwareId"
         /\ LET last == probes[p][Len(probes[p])] IN
            (last.err = Nil /\ last.id # Empty) => (err[p] = Nil /\ initialized)

C3_UninitializedCallProbes ==
  \A p \in Procs :
    (pc[p] = "Check" /\ ~initialized /\ pc'[p] # pc[p])
      => pc'[p] = "GetEnvType"

\* C3: a call that finds the state Uninitialized goes on to the classifier
\* and the primary source, and to the fallback when the primary reported
\* not-found or an empty identity, whatever attempts failed before; a call
\* ends without probing only when the state is Resolved; and an attempt
\* whose last probe delivered an identity ends with success and the state
\* Resolved.
C3_RetryFromScratch ==
  [] C3_ProbesOfAttempt /\ [][C3_UninitializedCallProbes]_vars

\* an attempt succeeds after an earlier attempt has failed
C3_Witness ==
  \E p \in Procs :
    AttemptEnds(p) /\ err[p] = Nil /\ initialized /\ midCalls >= 2

C4_FatalErrorEndsAttempt ==
  \A p \in Procs :
    (AttemptEnds(p) /\ Len(probes[p]) >= 2
       /\ probes[p][2].err # Nil /\ ~IsNotFound(probes[p][2].err))
      => /\ Len(probes[p]) = 2
         /\ err[p] = probes[p][2].err
         /\ ~initialized

\* C4: when the primary source returned an error other than not-found, the
\* attempt invoked no fallback, loadInfo's error is that error, the state
\* is still Uninitialized, and the public function returns ("", that error).
C4_FatalErrorNoFallback ==
  [] C4_FatalErrorEndsAttempt /\ [][ErrorReturnedVerbatim]_vars

\* ID() is returning the primary source's permission error
C4_Witness ==
  \E p \in Procs :
    pc[p] = "Return" /\ op[p].fn = "ID" /\ ret[p].err = ErrPermission

\* the identities getHardwareId derives from the interface lists
HardwareIds ==
  { getHardwareId(r).id : r \in { x \in InterfaceResults :
                                    getHardwareId(x).err = Nil } }

\* C5: when the primary source returned not-found or an empty identity,
\* the same attempt invoked the fallback; if the fallback succeeded,
\* loadInfo succeeds, the state is Resolved and cachedRawID is the
\* fallback's result, not the value the primary source returned.
C5_FallbackIdentityCached ==
  \A p \in Procs :
    (AttemptEnds(p) /\ Len(probes[p]) >= 2 /\ TriggersFallback(probes[p][2]))
      => /\ Len(probes[p]) = 3
         /\ ProbeFn(p, 3) = "getHardwareId"
         /\ probes[p][3].err = Nil =>
              /\ err[p] = Nil
              /\ initialized
              /\ cachedRawID = probes[p][3].id
              /\ cachedRawID \in HardwareIds
              /\ cachedRawID # probes[p][2].id

\* the fallback succeeded after a not-found that came with a value
C5_Witness ==
  \E p \in Procs :
    /\ AttemptEnds(p) /\ Len(probes[p]) = 3
    /\ probes[p][2].err = ErrPathNotExist
    /\ initialized /\ cachedRawID \in HardwareIds

C6_FallbackErrorEndsAttempt ==
  \A p \in Procs :
    (AttemptEnds(p) /\ Len(probes[p]) = 3 /\ probes[p][3].err # Nil)
      => /\ TriggersFallback(probes[p][2])
         /\ err[p] = probes[p][3].err
         /\ err[p] \in { ErrNetwork, ErrNoInterfaces }
         /\ ~initialized

\* C6: when the primary source reported not-found or empty and the
\* fallback failed, loadInfo's error is the fallback's error (the
\* enumeration error or the no-valid-interfaces error), never the
\* primary's, the state is Uninitialized, and the public function returns
\* ("", that error).
C6_FallbackErrorReturned ==
  [] C6_FallbackErrorEndsAttempt /\ [][ErrorReturnedVerbatim]_vars

\* a public function is returning the fallback's error after a not-found
C6_Witness ==
  \E p \in Procs :
    /\ pc[p] = "Return" /\ ret[p].err \in { ErrNetwork, ErrNoInterfaces }
    /\ ifCalls >= 1

\* C7: at most one caller is between mu.Lock() and mu.Unlock() (the check,
\* the probes and the cache writes), and the mutex is held exactly then.
C7_MutualExclusion ==
  /\ Cardinality({ p \in Procs : pc[p] \in CriticalSection }) <= 1
  /\ mu <=> (\E p \in Procs : pc[p] \in CriticalSection)

\* one caller is inside a probe while another waits for the lock
C7_Witness ==
  \E p, q \in Procs : pc[p] = "GetMachineID" /\ pc[q] = "Lock"

\* C8: with concurrent callers of ID() and a primary source that returns
\* an identity, the classifier and the primary source are invoked at most
\* once, exactly once as soon as one loadInfo has returned, and every
\* caller returns an identifier and no error.
C8_ConcurrentFirstCalls ==
  /\ envCalls <= 1 /\ midCalls <= 1
  /\ (\E p \in Procs : pc[p] \in AfterLoadInfo \cup { "Return" })
       => (envCalls = 1 /\ midCalls = 1)
  /\ \A p \in Procs :
       pc[p] = "Return" => (ret[p].err = Nil /\ ret[p].val # Empty)

\* all callers are returning from concurrent calls
C8_Witness ==
  /\ \A p \in Procs : pc[p] = "Return" /\ ret[p].err = Nil
  /\ midCalls = 1 /\ envCalls = 1

\* C9: initialized never goes from true to false, and while it is true no
\* step changes cachedRawID or cachedPrefix.
C9_MonotonicFrozen ==
  [][initialized => (initialized' /\ cachedRawID' = cachedRawID
                     /\ cachedPrefix' = cachedPrefix)]_vars

\* a later call reads the cache of an earlier resolution
C9_Witness ==
  \E p \in Procs : pc[p] = "Format" /\ initialized /\ calls >= 2

\* C10: whenever initialized is true, cachedRawID is non-empty after
\* trimming, and no ID() call returns the hasher's empty-input error.
C10_ResolvedIdentityHashable ==
  /\ initialized => TrimSpace(cachedRawID) # Empty
  /\ \A p \in Procs :
       (pc[p] = "Return" /\ op[p].fn = "ID") => ret[p].err # ErrEmptyMachineID

\* caller p is returning an identifier from ID or ProtectedID
ReturnsIdentifier(p) ==
  pc[p] = "Return" /\ ret[p].err = Nil /\ op[p].fn \in { "ID", "ProtectedID" }

\* C11: for one resolved machine state, ProtectedID of two different appIDs
\* (empty ones and ones with surrounding whitespace included) returns two
\* different identifiers, and ProtectedID never returns what ID returns.
C11_ScopedIdentifiersDiffer ==
  \A p, q \in Procs :
    (ReturnsIdentifier(p) /\ ReturnsIdentifier(q) /\ op[p] # op[q])
      => ret[p].val # ret[q].val

\* ------------------------------------------- properties of getHardwareId
\* getHardwareId has returned to the test
Tested == pc[TestCaller] = "Tested"

\* what netInterfaces returned to it, and what it returned
Enumerated == probes[TestCaller][1]
HardwareId == id[TestCaller]
HardwareErr == err[TestCaller]

\* the addresses listed in a returned identity
ListedMacs == IF HardwareErr = Nil THEN SplitAt(HardwareId, ",", Empty)
              ELSE Empty

Range(f) == { f[i] : i \in DOMAIN f }

\* the colon-separated hex form of the addresses of the pool
MacText(i) ==
  CASE i = Eth0 -> << "a", "a", ":", "b", "b", ":", "c", "c", ":",
                      "d", "d", ":", "e", "e", ":", "f", "f" >>
    [] i = Eth1 -> << "2", "2", ":", "2", "2", ":", "2", "2", ":",
                      "2", "2", ":", "2", "2", ":", "2", "2" >>
    [] i = Eth0Low -> << "1", "1", ":", "1", "1", ":", "1", "1", ":",
                         "1", "1", ":", "1", "1", ":", "1", "1" >>
    [] i = Tun0 -> << "0", "a", ":", "0", "0", ":", "0", "0", ":",
                      "0", "0", ":", "0", "0", ":", "0", "1" >>
    [] i = Tap0 -> << "0", "a", ":", "0", "0", ":", "0", "0", ":",
                      "0", "0", ":", "0", "0", ":", "0", "2" >>
    [] i = Docker0 -> << "0", "2", ":", "4", "2", ":", "0", "0", ":",
                         "0", "0", ":", "0", "0", ":", "0", "0" >>
    [] i = Veth1234 -> << "0", "2", ":", "4", "2", ":", "0", "0", ":",
                          "0", "0", ":", "0", "0", ":", "0", "1" >>
    [] i = Lo -> << "0", "0", ":", "0", "0", ":", "0", "0", ":",
                    "0", "0", ":", "0", "0", ":", "0", "0" >>
    [] OTHER -> Empty

\* an interface the fallback is to use
Eligible(i) ==
  /\ ~i.Loopback
  /\ i.HardwareAddr # Empty
  /\ \A m \in { << "d", "o", "c", "k", "e", "r" >>, << "v", "e", "t", "h" >>,
               << "t", "u", "n" >>, << "t", "a", "p" >> } :
       ~Contains(ToLower(i.Name), m)

EligibleAt(l) == { k \in 1..Len(l) : Eligible(l[k]) }

\* C12: when the enumeration succeeded, the addresses in the result are
\* those of the interfaces that are not loopback, have a hardware address
\* and whose lower-cased name contains none of docker, veth, tun, tap; the
\* list lo, docker0, veth1234, eth0 gives exactly "aa:bb:cc:dd:ee:ff".
C12_EligibleInterfaces ==
  (Tested /\ Enumerated.err = Nil) =>
    /\ \A k \in 1..Len(Enumerated.ifaces) :
         MacText(Enumerated.ifaces[k]) \in Range(ListedMacs)
           <=> Eligible(Enumerated.ifaces[k])
    /\ Range(ListedMacs)
         = { MacText(Enumerated.ifaces[k]) : k \in EligibleAt(Enumerated.ifaces) }
    /\ Enumerated.ifaces = << Lo, Docker0, Veth1234, Eth0 >>
         => (HardwareErr = Nil /\ HardwareId = MacText(Eth0))

\* the list of the example has been resolved
C12_Witness ==
  /\ Tested /\ Enumerated.ifaces = << Lo, Docker0, Veth1234, Eth0 >>
  /\ HardwareId = MacText(Eth0)

\* the arrangements of a list
Arrangements(l) ==
  { [k \in 1..Len(l) |-> l[f[k]]] : f \in Permutations(1..Len(l)) }

Ascending(l) ==
  \A k \in 1..(Len(l) - 1) : StrLess(l[k], l[k + 1]) \/ l[k] = l[k + 1]

\* C13: every arrangement of the enumerated list gives the result the
\* enumerated one gave, and a returned identity is the eligible addresses,
\* one per eligible interface, in ascending order, joined by ",".
C13_OrderIndependent ==
  Tested =>
    /\ \A l \in Arrangements(Enumerated.ifaces) :
         getHardwareId([ifaces |-> l, err |-> Enumerated.err])
           = [id |-> HardwareId, err |-> HardwareErr]
    /\ HardwareErr = Nil =>
         /\ Ascending(ListedMacs)
         /\ Len(ListedMacs) = Cardinality(EligibleAt(Enumerated.ifaces))
         /\ Range(ListedMacs)
              = { MacText(Enumerated.ifaces[k]) :
                    k \in EligibleAt(Enumerated.ifaces) }
         /\ HardwareId = Join(ListedMacs, << "," >>)
    /\ Enumerated.ifaces = << Eth1, Eth0Low >>
         => HardwareId = MacText(Eth0Low) \o << "," >> \o MacText(Eth1)

\* eth1 was enumerated before eth0 and the smaller address comes first
C13_Witness ==
  /\ Tested /\ Enumerated.ifaces = << Eth1, Eth0Low >>
  /\ HardwareId = MacText(Eth0Low) \o << "," >> \o MacText(Eth1)

\* C16: getHardwareId fails with the no-valid-interfaces error exactly when
\* the enumeration succeeded and no enumerated interface is eligible, and
\* when the enumeration failed it returns that error with an empty identity.
C16_FallbackErrors ==
  Tested =>
    /\ HardwareErr = ErrNoInterfaces
         <=> (Enumerated.err = Nil /\ EligibleAt(Enumerated.ifaces) = {})
    /\ Enumerated.err # Nil
         => (HardwareErr = Enumerated.err /\ HardwareId = Empty)
    /\ HardwareErr # Nil => HardwareId = Empty
    /\ HardwareErr = Nil => HardwareId # Empty

\* a non-empty list was filtered out completely
C16_Witness ==
  /\ Tested /\ HardwareErr = ErrNoInterfaces
  /\ Enumerated.ifaces = << Lo, Docker0, Veth1234 >>

\* ------------------------------------------------- properties of protect
\* protect has returned to the test; what it was given
Hashed == pc[TestCaller] = "Tested" /\ op[TestCaller].fn = "protect"
HashedInput == op[TestCaller].appID

\* a string of whitespace only
Blank(s) == \A k \in 1..Len(s) : s[k] \in { " ", "\t", "\n" }

\* s without its leading and trailing whitespace
Core(s) ==
  LET solid == { k \in 1..Len(s) : s[k] \notin { " ", "\t", "\n" } } IN
  IF solid = {} THEN Empty
  ELSE SubSeq(s, CHOOSE k \in solid : \A j \in solid : k <= j,
                 CHOOSE k \in solid : \A j \in solid : k >= j)

\* C14: protect returns the empty-input error exactly for the inputs that
\* are empty after trimming; for every other input it returns a digest and
\* no error, the digest of the input without its surrounding whitespace,
\* which is also what protect returns for the trimmed input.
C14_HashTrimsAndValidates ==
  Hashed =>
    /\ err[TestCaller] = ErrEmptyMachineID <=> Blank(HashedInput)
    /\ Blank(HashedInput) => hash[TestCaller] = Empty
    /\ ~Blank(HashedInput) =>
         /\ err[TestCaller] = Nil
         /\ hash[TestCaller] = Sha256Hex(Core(HashedInput))
         /\ protect(Core(HashedInput))
              = [hash |-> hash[TestCaller], err |-> Nil]

\* an input with whitespace on both sides has been hashed
C14_Witness ==
  /\ Hashed /\ HashedInput = << " ", "a", "\t" >>
  /\ hash[TestCaller] = Sha256Hex(<< "a" >>)

\* ------------------------------------------ properties of the identifiers
\* C15: an identifier returned by ID() is cachedPrefix, ":" and the hash of
\* cachedRawID; one returned by ProtectedID(k) is cachedPrefix, ":" and the
\* hash of cachedRawID + ":" + k; and cachedPrefix is the label the
\* classifier returned in the attempt that resolved.
C15_IdentifierFormat ==
  \A p \in Procs :
    /\ (ReturnsIdentifier(p) /\ op[p].fn = "ID") =>
         ret[p].val = cachedPrefix \o << ":" >> \o protect(cachedRawID).hash
    /\ (ReturnsIdentifier(p) /\ op[p].fn = "ProtectedID") =>
         ret[p].val = cachedPrefix \o << ":" >>
                        \o protect(cachedRawID \o << ":" >> \o op[p].appID).hash
    /\ ReturnsIdentifier(p) =>
         /\ cachedPrefix \in EnvTypes
         /\ SubSeq(ret[p].val, 1, Len(cachedPrefix) + 1)
              = cachedPrefix \o << ":" >>
    /\ (AttemptEnds(p) /\ err[p] = Nil) => cachedPrefix = probes[p][1].id

\* ProtectedID is returning an identifier that starts with "vm:"
C15_Witness ==
  \E p \in Procs :
    /\ ReturnsIdentifier(p) /\ op[p].fn = "ProtectedID"
    /\ SubSeq(ret[p].val, 1, 3) = << "v", "m", ":" >>

\* --------------------------------------- properties of the resolution
\* C17: the probes of one attempt are the classifier, then the primary
\* source, then possibly the fallback, each at most once; the fallback only
\* after the primary source returned not-found or an empty identity; and an
\* attempt that ends has invoked the classifier and the primary source.
C17_ProbeOrder ==
  \A p \in Procs :
    LET n == Len(probes[p]) IN
    /\ n <= 3
    /\ n >= 1 => ProbeFn(p, 1) = "getEnvTypeFunc"
    /\ n >= 2 => ProbeFn(p, 2) = "getMachineIDFunc"
    /\ n = 3 => (ProbeFn(p, 3) = "getHardwareId"
                 /\ TriggersFallback(probes[p][2]))
    /\ pc[p] \in { "idle", "Lock", "Check", "GetEnvType" } => n = 0
    /\ pc[p] = "GetMachineID" => n = 1
    /\ pc[p] = "GetHardwareId" => n = 2
    /\ pc[p] \in { "StoreRawID", "StorePrefix", "StoreInitialized" }
         => n \in { 2, 3 }
    /\ AttemptEnds(p) => n \in { 2, 3 }

\* an attempt ends after all three probes, the primary source having
\* returned an empty identity without error
C17_Witness ==
  \E p \in Procs :
    /\ AttemptEnds(p) /\ Len(probes[p]) = 3
    /\ probes[p][2].id = Empty /\ probes[p][2].err = Nil

\* the callers about to read the cache record without the lock, and the
\* callers about to write it
Readers == { p \in Procs : pc[p] \in AfterLoadInfo }
Writers ==
  { p \in Procs : pc[p] \in { "StoreRawID", "StorePrefix", "StoreInitialized" } }

\* C18: no caller is at a lock-free read of cachedRawID or cachedPrefix
\* while another is at a write of the cache record: a read happens only
\* with initialized true, a write only with initialized false.
C18_ReadsRaceFree ==
  /\ Readers # {} => (initialized /\ Writers = {})
  /\ Writers # {} => (~initialized /\ Readers = {})

\* a caller reads the cache while another caller is inside the lock
C18_Witness ==
  \E p, q \in Procs : pc[p] = "Protect" /\ pc[q] = "Check"

\* C20: any two callers returning identifiers from the same function with
\* the same appID return the same string, whatever the probes returned in
\* the attempts made.
C20_ProcessWideAgreement ==
  \A p, q \in Procs :
    (ReturnsIdentifier(p) /\ ReturnsIdentifier(q) /\ op[p] = op[q])
      => ret[p].val = ret[q].val

\* two callers are returning from ID() at once
C20_Witness ==
  \E p, q \in Procs :
    /\ p # q /\ ReturnsIdentifier(p) /\ ReturnsIdentifier(q)
    /\ op[p].fn = "ID" /\ op[q].fn = "ID"

\* ------------------------------------ properties of the primary source
\* the platform's identity is missing or empty: /etc/machine-id does not
\* exist or holds whitespace only; ioreg ran and printed no identity
IdentityMissing(s) ==
  IF s.os = "linux"
  THEN s.err = ErrPathNotExist \/ (s.err = Nil /\ Blank(s.data))
  ELSE s \in { Source("darwin", IoregHeader \o SerialLine, Nil),
               Source("darwin", IoregHeader \o UUIDLine(Empty), Nil) }

\* the attempt of caller p ends and its primary source was s
EndsWithSource(p, s) ==
  AttemptEnds(p) /\ Len(probes[p]) >= 2 /\ probes[p][2].src = s

\* C19: an attempt whose platform identity is missing or empty invokes the
\* hardware fallback, and fails only with the fallback's error.
C19_MissingIdentityFallsBack ==
  \A p \in Procs : \A s \in PlatformSources :
    (EndsWithSource(p, s) /\ IdentityMissing(s))
      => /\ ProbeFn(p, 3) = "getHardwareId"
         /\ err[p] = probes[p][3].err

\* C19 (Darwin): without an IOPlatformUUID line, or with an empty one, the
\* attempt invokes the hardware fallback.
C19_DarwinFallsBack ==
  \A p \in Procs : \A s \in IoregOutputs :
    (EndsWithSource(p, s) /\ IdentityMissing(s))
      => ProbeFn(p, 3) = "getHardwareId"

C19_DarwinWitness ==
  \E p \in Procs :
    /\ EndsWithSource(p, Source("darwin", IoregHeader \o SerialLine, Nil))
    /\ ProbeFn(p, 3) = "getHardwareId" /\ err[p] = Nil

\* ------------------------------------------ properties of the cache pair
\* the attempt of caller p has obtained an identity
Succeeds(p) ==
  /\ Len(probes[p]) >= 2
  /\ probes[p][Len(probes[p])].err = Nil
  /\ probes[p][Len(probes[p])].id # Empty

\* the cache record holds the classifier's label and the identity that the
\* attempt of caller p obtained
CachedFrom(p) ==
  /\ cachedPrefix = probes[p][1].id
  /\ cachedRawID = probes[p][Len(probes[p])].id

\* a non-empty cache record without initialized belongs to the successful
\* attempt that is storing it; an attempt that ends in success leaves its
\* own label and its own identity in the cache
CachePairOfOneAttempt ==
  /\ (~initialized /\ (cachedPrefix # Empty \/ cachedRawID # Empty))
       => \E p \in Procs :
            /\ pc[p] \in { "StorePrefix", "StoreInitialized" }
            /\ Succeeds(p)
            /\ cachedRawID = probes[p][Len(probes[p])].id
            /\ cachedPrefix \in { Empty, probes[p][1].id }
  /\ \A p \in Procs :
       (AttemptEnds(p) /\ err[p] = Nil)
         => (initialized /\ Succeeds(p) /\ CachedFrom(p))
  /\ \A p \in Procs : (AttemptEnds(p) /\ err[p] # Nil) => ~initialized

\* initialized becomes true only by the step of a successful attempt whose
\* label and identity are the cached ones, and the pair never changes after
CachePairFrozen ==
  /\ (~initialized /\ initialized')
       => \E p \in Procs :
            /\ pc[p] = "StoreInitialized" /\ Succeeds(p) /\ CachedFrom(p)
            /\ cachedPrefix' = cachedPrefix /\ cachedRawID' = cachedRawID
  /\ initialized
       => (cachedPrefix' = cachedPrefix /\ cachedRawID' = cachedRawID)

\* C22: the cached tag and the cached raw identity always come from the
\* same successful attempt: a failed attempt stores nothing, the attempt
\* that sets initialized has stored its own classifier label and its own
\* identity, and the pair is never changed afterwards.
C22_CachePairSameAttempt ==
  []CachePairOfOneAttempt /\ [][CachePairFrozen]_vars

\* a resolution through the fallback succeeds after an earlier attempt,
\* which ran the classifier too, had failed
C22_Witness ==
  \E p \in Procs :
    /\ AttemptEnds(p) /\ err[p] = Nil /\ initialized
    /\ Len(probes[p]) = 3 /\ envCalls = 2

\* --------------------------------------------- properties of scheduling
\* C21: with probes that return and a fair mutex, every caller that has
\* entered ID, ProtectedID or loadInfo reaches its return; whenever no
\* caller is between Lock and Unlock the mutex is free, whatever way the
\* last attempt ended.
C21_EveryCallReturns ==
  /\ []((\A p \in Procs : pc[p] \notin CriticalSection) => ~mu)
  /\ \A p \in Procs : (pc[p] = "Lock") ~> (pc[p] = "Return")

\* a caller waits for the lock while the attempt of another caller is
\* about to end with an error
C21_Witness ==
  \E p, q \in Procs :
    /\ pc[p] = "Lock"
    /\ pc[q] = "Unlock" /\ err[q] # Nil /\ mu

====
